---- MODULE Spec2Model ----
(***************************************************************************)
(* Model of download.py: the fixed-width catalog parser / validator /      *)
(* normalizer of the IAU star-name catalog.                                *)
(*                                                                         *)
(* A Python str is a sequence of characters.  A character is a one-letter  *)
(* TLA+ string for ASCII ("A", " ", "\t", "\n") and the token "U+XXXX" for *)
(* a character outside ASCII ("U+03C6" is GREEK SMALL LETTER PHI).         *)
(***************************************************************************)
EXTENDS Integers, Sequences, FiniteSets, TLC

\* ------------------------------------------------------------------------
\* Characters and character classes
\* ------------------------------------------------------------------------

AsciiUpper == {"A", "B", "C", "D", "E", "F", "G", "H", "I", "J", "K", "L", "M",
               "N", "O", "P", "Q", "R", "S", "T", "U", "V", "W", "X", "Y", "Z"}

AsciiLower == {"a", "b", "c", "d", "e", "f", "g", "h", "i", "j", "k", "l", "m",
               "n", "o", "p", "q", "r", "s", "t", "u", "v", "w", "x", "y", "z"}

AsciiLetters == <<"a", "b", "c", "d", "e", "f", "g", "h", "i", "j", "k", "l", "m",
                  "n", "o", "p", "q", "r", "s", "t", "u", "v", "w", "x", "y", "z">>

AsciiCapitals == <<"A", "B", "C", "D", "E", "F", "G", "H", "I", "J", "K", "L", "M",
                   "N", "O", "P", "Q", "R", "S", "T", "U", "V", "W", "X", "Y", "Z">>

\* \d of a Python 3 str pattern is every Unicode decimal digit; the ASCII
\* digits are the ones the modelled inputs contain.
Digit == {"0", "1", "2", "3", "4", "5", "6", "7", "8", "9"}

\* U+03B1 .. U+03C9: the range [α-ω] of the ID/Diacritics pattern.
GreekSmall == <<"U+03B1", "U+03B2", "U+03B3", "U+03B4", "U+03B5", "U+03B6",
                "U+03B7", "U+03B8", "U+03B9", "U+03BA", "U+03BB", "U+03BC",
                "U+03BD", "U+03BE", "U+03BF", "U+03C0", "U+03C1", "U+03C2",
                "U+03C3", "U+03C4", "U+03C5", "U+03C6", "U+03C7", "U+03C8",
                "U+03C9">>

\* str.upper() of GreekSmall, position by position.
GreekCapital == <<"U+0391", "U+0392", "U+0393", "U+0394", "U+0395", "U+0396",
                  "U+0397", "U+0398", "U+0399", "U+039A", "U+039B", "U+039C",
                  "U+039D", "U+039E", "U+039F", "U+03A0", "U+03A1", "U+03A3",
                  "U+03A3", "U+03A4", "U+03A5", "U+03A6", "U+03A7", "U+03A8",
                  "U+03A9">>

Range(f) == {f[j] : j \in DOMAIN f}

IndexOf(f, c) == CHOOSE j \in DOMAIN f : f[j] = c

\* The characters str.strip("\r\n\t ") removes.
StripChars == {"\r", "\n", "\t", " "}

\* ------------------------------------------------------------------------
\* str methods
\* ------------------------------------------------------------------------

Min(x, y) == IF x <= y THEN x ELSE y

RECURSIVE Flatten(_)
Flatten(ss) == IF ss = <<>> THEN <<>> ELSE Head(ss) \o Flatten(Tail(ss))

\* value[lo-1 : hi] for 1 <= lo: Python clamps a slice to the string.
Slice(s, lo, hi) == SubSeq(s, lo, Min(hi, Len(s)))

\* s.lstrip(chars), s.rstrip(chars), s.strip(chars)
LStrip(s, chars) ==
    LET keep == {j \in 1..Len(s) : s[j] \notin chars}
    IN  IF keep = {} THEN <<>>
        ELSE SubSeq(s, CHOOSE j \in keep : \A m \in keep : j <= m, Len(s))

RStrip(s, chars) ==
    LET keep == {j \in 1..Len(s) : s[j] \notin chars}
    IN  IF keep = {} THEN <<>>
        ELSE SubSeq(s, 1, CHOOSE j \in keep : \A m \in keep : j >= m)

Strip(s, chars) == LStrip(RStrip(s, chars), chars)

Spaces(n) == [j \in 1..n |-> " "]

\* s.ljust(width, " ") and s.rjust(width, " "): pad, never truncate.
LJust(s, width) == IF Len(s) >= width THEN s ELSE s \o Spaces(width - Len(s))

RJust(s, width) == IF Len(s) >= width THEN s ELSE Spaces(width - Len(s)) \o s

\* sep.join(parts)
RECURSIVE JoinStr(_, _)
JoinStr(sep, parts) ==
    IF parts = <<>> THEN <<>>
    ELSE IF Len(parts) = 1 THEN parts[1]
    ELSE parts[1] \o sep \o JoinStr(sep, Tail(parts))

\* str.upper() and str.lower() of one character, as the characters they
\* yield.  The table holds the ASCII letters, the Greek letters (a capital
\* sigma lower-cased as the non-final form), U+03D5 GREEK PHI SYMBOL,
\* U+00B5 MICRO SIGN and U+00DF LATIN SMALL LETTER SHARP S, whose upper
\* case is the two letters "SS"; every other character is left alone, as
\* Python leaves the uncased ones.
UpperChar(c) ==
    IF c \in AsciiLower THEN <<AsciiCapitals[IndexOf(AsciiLetters, c)]>>
    ELSE IF c \in Range(GreekSmall) THEN <<GreekCapital[IndexOf(GreekSmall, c)]>>
    ELSE IF c = "U+03D5" THEN <<"U+03A6">>
    ELSE IF c = "U+00B5" THEN <<"U+039C">>
    ELSE IF c = "U+00DF" THEN <<"S", "S">>
    ELSE <<c>>

LowerChar(c) ==
    IF c \in AsciiUpper THEN <<AsciiLetters[IndexOf(AsciiCapitals, c)]>>
    ELSE IF c = "U+03A3" THEN <<"U+03C3">>
    ELSE IF c \in Range(GreekCapital) THEN <<GreekSmall[IndexOf(GreekCapital, c)]>>
    ELSE <<c>>

StrUpper(s) == Flatten([j \in 1..Len(s) |-> UpperChar(s[j])])

StrLower(s) == Flatten([j \in 1..Len(s) |-> LowerChar(s[j])])

\* ------------------------------------------------------------------------
\* float(x), as far as the range checks of the validators read it
\* ------------------------------------------------------------------------

DigitSeq == <<"0", "1", "2", "3", "4", "5", "6", "7", "8", "9">>

IsDigit(c) == c \in Digit

DigitsOf(s) == SelectSeq(s, IsDigit)

\* The number written by a string of digits, capped (the comparisons below
\* never need more).
RECURSIVE NatOf(_, _)
NatOf(ds, cap) ==
    IF ds = <<>> THEN 0
    ELSE Min(cap, 10 * NatOf(SubSeq(ds, 1, Len(ds) - 1), cap)
                  + IndexOf(DigitSeq, ds[Len(ds)]) - 1)

\* digitpart of the float grammar: digits, single underscores between them.
DigitGroup(d) ==
    /\ d # <<>>
    /\ \A j \in 1..Len(d) : d[j] \in Digit \cup {"_"}
    /\ d[1] \in Digit
    /\ d[Len(d)] \in Digit
    /\ \A j \in 1..(Len(d) - 1) : ~(d[j] = "_" /\ d[j + 1] = "_")

FirstIndex(s, chars) ==
    LET hits == {j \in 1..Len(s) : s[j] \in chars}
    IN  IF hits = {} THEN 0 ELSE CHOOSE j \in hits : \A m \in hits : j <= m

\* A float as the range checks read it.  ok = FALSE is ValueError.  A
\* finite value is its sign, its integer part (capped at 1000) and whether
\* a fraction follows: that decides every comparison with an integer of
\* magnitude below 1000.
FloatValue(ok, cls, neg, ip, fnz) ==
    [ok |-> ok, cls |-> cls, neg |-> neg, ip |-> ip, fnz |-> fnz]

\* 0.sig * 10^p with sig[1] # "0".  A value too small for a double is the
\* signed zero float() rounds it to: below 10^-324, or below half the least
\* positive double, 2.4703e-324 to the digits a field can hold.
FloatScaled(neg, sig, p) ==
    IF \/ p <= 0 - 324
       \/ (p = 0 - 323 /\ NatOf(SubSeq(sig \o <<"0", "0", "0", "0", "0">>, 1, 5), 100000) <= 24703)
      THEN FloatValue(TRUE, "fin", neg, 0, FALSE)
    ELSE IF p >= 4 THEN FloatValue(TRUE, "fin", neg, 1000, FALSE)
    ELSE IF p <= 0 THEN FloatValue(TRUE, "fin", neg, 0, TRUE)
    ELSE FloatValue(TRUE, "fin", neg, NatOf(SubSeq(sig \o <<"0", "0", "0">>, 1, p), 1000),
                    \E j \in (p + 1)..Len(sig) : sig[j] # "0")

\* The digits ds with the decimal point after the first `point` of them.
FloatOfDigits(neg, ds, point, first) ==
    IF first = 0 THEN FloatValue(TRUE, "fin", neg, 0, FALSE)
    ELSE FloatScaled(neg, SubSeq(ds, first, Len(ds)), point - (first - 1))

IntPart(mant, dpos) == IF dpos = 0 THEN mant ELSE SubSeq(mant, 1, dpos - 1)

FracPart(mant, dpos) == IF dpos = 0 THEN <<>> ELSE SubSeq(mant, dpos + 1, Len(mant))

\* digitpart [ "." [digitpart] ]  or  "." digitpart
MantissaOk(ipart, fpart, dpos) ==
    IF dpos = 0 THEN DigitGroup(ipart)
    ELSE /\ ipart = <<>> \/ DigitGroup(ipart)
         /\ fpart = <<>> \/ DigitGroup(fpart)
         /\ ~(ipart = <<>> /\ fpart = <<>>)

Unsigned(s) == IF s # <<>> /\ s[1] \in {"+", "-"} THEN Tail(s) ELSE s

IsNegative(s) == s # <<>> /\ s[1] = "-"

\* The exponent after "e": [sign] digitpart
ExponentValue(etxt) ==
    IF IsNegative(etxt) THEN 0 - NatOf(DigitsOf(Unsigned(etxt)), 100000)
    ELSE NatOf(DigitsOf(Unsigned(etxt)), 100000)

FloatOfParts(neg, ipart, fpart, dpos, hasexp, etxt) ==
    IF ~(MantissaOk(ipart, fpart, dpos) /\ (hasexp => DigitGroup(Unsigned(etxt))))
      THEN FloatValue(FALSE, "nan", neg, 0, FALSE)
    ELSE FloatOfDigits(neg, DigitsOf(ipart) \o DigitsOf(fpart),
                       Len(DigitsOf(ipart)) + ExponentValue(etxt),
                       FirstIndex(DigitsOf(ipart) \o DigitsOf(fpart), Digit \ {"0"}))

FloatOfMantissa(neg, mant, dpos, hasexp, etxt) ==
    FloatOfParts(neg, IntPart(mant, dpos), FracPart(mant, dpos), dpos, hasexp, etxt)

FloatOfDecimal(neg, body, epos) ==
    FloatOfMantissa(neg,
                    IF epos = 0 THEN body ELSE SubSeq(body, 1, epos - 1),
                    FirstIndex(IF epos = 0 THEN body ELSE SubSeq(body, 1, epos - 1), {"."}),
                    epos # 0,
                    IF epos = 0 THEN <<>> ELSE SubSeq(body, epos + 1, Len(body)))

AsciiLowered(s) ==
    [j \in 1..Len(s) |-> IF s[j] \in AsciiUpper THEN LowerChar(s[j])[1] ELSE s[j]]

\* [sign] ("inf" | "infinity" | "nan" | floatnumber), letters in either case
FloatOfBody(neg, body, word) ==
    IF word \in {<<"i", "n", "f">>, <<"i", "n", "f", "i", "n", "i", "t", "y">>}
      THEN FloatValue(TRUE, "inf", neg, 1000, FALSE)
    ELSE IF word = <<"n", "a", "n">> THEN FloatValue(TRUE, "nan", neg, 0, FALSE)
    ELSE FloatOfDecimal(neg, body, FirstIndex(body, {"e", "E"}))

FloatOfStripped(s) == FloatOfBody(IsNegative(s), Unsigned(s), AsciiLowered(Unsigned(s)))

\* float(x)
Float(x) == FloatOfStripped(Strip(x, StripChars))

\* f > b and f < b for a float f and an integer b; nan compares False.
FloatGt(f, b) ==
    IF f.cls = "nan" THEN FALSE
    ELSE IF f.cls = "inf" THEN ~f.neg
    ELSE IF ~f.neg THEN f.ip > b \/ (f.ip = b /\ f.fnz)
    ELSE f.ip < 0 - b

FloatLt(f, b) ==
    IF f.cls = "nan" THEN FALSE
    ELSE IF f.cls = "inf" THEN f.neg
    ELSE IF ~f.neg THEN f.ip < b
    ELSE f.ip > 0 - b \/ (f.ip = 0 - b /\ f.fnz)

FloatGe(f, b) == f.cls # "nan" /\ ~FloatLt(f, b)

FloatLe(f, b) == f.cls # "nan" /\ ~FloatGt(f, b)

\* ------------------------------------------------------------------------
\* The validators of the column table: re.compile(p).fullmatch, and the
\* three range lambdas
\* ------------------------------------------------------------------------

AllIn(s, chars) == \A j \in 1..Len(s) : s[j] \in chars

\* \d{lo,hi}
Digits(s, lo, hi) == Len(s) \in lo..hi /\ AllIn(s, Digit)

\* "." of a pattern compiled without DOTALL: any character but a newline.
NoNewline(s) == \A j \in 1..Len(s) : s[j] # "\n"

\* [A-Z][a-z']+( [A-Z][a-z]+)?
MatchNameAscii(s) ==
    LET First(w)  == Len(w) >= 2 /\ w[1] \in AsciiUpper
                     /\ AllIn(Tail(w), AsciiLower \cup {"'"})
        Second(w) == Len(w) >= 2 /\ w[1] \in AsciiUpper /\ AllIn(Tail(w), AsciiLower)
    IN  \/ First(s)
        \/ \E j \in 1..Len(s) : /\ s[j] = " "
                                /\ First(SubSeq(s, 1, j - 1))
                                /\ Second(SubSeq(s, j + 1, Len(s)))

\* .*
MatchAny(s) == NoNewline(s)

CatalogPrefixes == {<<"H", "R", " ">>,
                    <<"H", "D", " ">>,
                    <<"G", "J", " ">>,
                    <<"W", "A", "S", "P", "-">>,
                    <<"H", "A", "T", "-", "P", "-">>,
                    <<"X", "O", "-">>,
                    <<"H", "I", "P", " ">>,
                    <<"T", "r", "E", "S", "-">>}

\* BD[+-]\d{1,2} followed by a space
IsBDPrefix(q) ==
    /\ Len(q) \in 5..6
    /\ q[1] = "B" /\ q[2] = "D" /\ q[3] \in {"+", "-"}
    /\ Digits(SubSeq(q, 4, Len(q) - 1), 1, 2)
    /\ q[Len(q)] = " "

\* ((HR |HD |GJ |WASP-|HAT-P-|XO-|HIP |TrES-|BD[+-]\d{1,2} )\d{1,6}|PSR .+)
MatchDesignation(s) ==
    \/ \E j \in 1..Len(s) :
          /\ SubSeq(s, 1, j) \in CatalogPrefixes \/ IsBDPrefix(SubSeq(s, 1, j))
          /\ Digits(SubSeq(s, j + 1, Len(s)), 1, 6)
    \/ /\ Len(s) >= 5
       /\ SubSeq(s, 1, 4) = <<"P", "S", "R", " ">>
       /\ NoNewline(s)

\* letters{0,3}\d{0,4} for a class of letters
LettersThenDigits(s, letters) ==
    \E j \in 0..Min(3, Len(s)) :
        /\ AllIn(SubSeq(s, 1, j), letters)
        /\ Digits(SubSeq(s, j + 1, Len(s)), 0, 4)

\* ([A-Za-z]{0,3}\d{0,4}|_)
MatchID(s) == LettersThenDigits(s, AsciiUpper \cup AsciiLower) \/ s = <<"_">>

\* [α-ωb-zAY]
BayerLetters == Range(GreekSmall) \cup (AsciiLower \ {"a"}) \cup {"A", "Y"}

\* (V\d+|[α-ωb-zAY]{0,3}\d{0,4}|_)
MatchIDDiacritics(s) ==
    \/ Len(s) >= 2 /\ s[1] = "V" /\ AllIn(Tail(s), Digit)
    \/ LettersThenDigits(s, BayerLetters)
    \/ s = <<"_">>

\* (_|[A-Z][A-Za-z]{2})
MatchCon(s) ==
    \/ s = <<"_">>
    \/ Len(s) = 3 /\ s[1] \in AsciiUpper /\ AllIn(Tail(s), AsciiUpper \cup AsciiLower)

\* (_|A|Aa|Aa1|C|Ca|B)
MatchComponent(s) == s \in {<<"_">>, <<"A">>, <<"A", "a">>, <<"A", "a", "1">>, <<"C">>, <<"C", "a">>, <<"B">>}

\* (_|(\d{5}[-+]\d{4}))
MatchWDS(s) ==
    \/ s = <<"_">>
    \/ Len(s) = 10 /\ Digits(SubSeq(s, 1, 5), 5, 5) /\ s[6] \in {"-", "+"}
                   /\ Digits(SubSeq(s, 7, 10), 4, 4)

\* [GV_]
MatchBand(s) == Len(s) = 1 /\ s[1] \in {"G", "V", "_"}

\* (\d{1,6}|_)
MatchNumber(s) == Digits(s, 1, 6) \/ s = <<"_">>

\* 20[12]\d-(1[0-2]|0[1-9])-(3[01]|[12]\d|0[1-9])
MatchDate(s) ==
    /\ Len(s) = 10
    /\ s[1] = "2" /\ s[2] = "0" /\ s[3] \in {"1", "2"} /\ s[4] \in Digit
    /\ s[5] = "-"
    /\ \/ s[6] = "1" /\ s[7] \in {"0", "1", "2"}
       \/ s[6] = "0" /\ s[7] \in Digit \ {"0"}
    /\ s[8] = "-"
    /\ \/ s[9] = "3" /\ s[10] \in {"0", "1"}
       \/ s[9] \in {"1", "2"} /\ s[10] \in Digit
       \/ s[9] = "0" /\ s[10] \in Digit \ {"0"}

\* [*@]?
MatchNotes(s) == s = <<>> \/ (Len(s) = 1 /\ s[1] \in {"*", "@"})

\* A validator's outcome: the truth value of what it returns ("True",
\* "False"), or the ValueError float() raises inside a range lambda.
Truth(b) == IF b THEN "True" ELSE "False"

\* lambda x: x == "_" or (float(x) > -2 and float(x) < 13)
MagRange(f) ==
    IF ~f.ok THEN "ValueError" ELSE Truth(FloatGt(f, 0 - 2) /\ FloatLt(f, 13))

MagValidator(x) == IF x = <<"_">> THEN "True" ELSE MagRange(Float(x))

\* lambda x: float(x) >= 0 and float(x) <= 360
RARange(f) ==
    IF ~f.ok THEN "ValueError" ELSE Truth(FloatGe(f, 0) /\ FloatLe(f, 360))

RAValidator(x) == RARange(Float(x))

\* lambda x: float(x) >= -90 and float(x) <= 90
DecRange(f) ==
    IF ~f.ok THEN "ValueError" ELSE Truth(FloatGe(f, 0 - 90) /\ FloatLe(f, 90))

DecValidator(x) == DecRange(Float(x))

\* validator(value) for the validator of a column table row.
Validate(validator, value) ==
    CASE validator = "Name/ASCII"      -> Truth(MatchNameAscii(value))
      [] validator = "Name/Diacritics" -> Truth(MatchAny(value))
      [] validator = "Designation"     -> Truth(MatchDesignation(value))
      [] validator = "ID"              -> Truth(MatchID(value))
      [] validator = "ID/Diacritics"   -> Truth(MatchIDDiacritics(value))
      [] validator = "Con"             -> Truth(MatchCon(value))
      [] validator = "#"               -> Truth(MatchComponent(value))
      [] validator = "WDS_J"           -> Truth(MatchWDS(value))
      [] validator = "mag"             -> MagValidator(value)
      [] validator = "bnd"             -> Truth(MatchBand(value))
      [] validator = "HIP"             -> Truth(MatchNumber(value))
      [] validator = "HD"              -> Truth(MatchNumber(value))
      [] validator = "RA(J2000)"       -> RAValidator(value)
      [] validator = "Dec(J2000)"      -> DecValidator(value)
      [] validator = "Date"            -> Truth(MatchDate(value))
      [] validator = "notes"           -> Truth(MatchNotes(value))

\* ------------------------------------------------------------------------
\* The preprocessors
\* ------------------------------------------------------------------------

dummy_preprocess(value) == value

\* value.upper().lower().strip(" ")
lowercase_preprocess(value) == Strip(StrLower(StrUpper(value)), {" "})

empty_to_underscore_preprocess(value) == IF value = <<>> THEN <<"_">> ELSE value

Preprocess(preprocessor, value) ==
    CASE preprocessor = "dummy_preprocess"     -> dummy_preprocess(value)
      [] preprocessor = "lowercase_preprocess" -> lowercase_preprocess(value)
      [] preprocessor = "empty_to_underscore_preprocess"
                                               -> empty_to_underscore_preprocess(value)

\* ------------------------------------------------------------------------
\* The column table
\* ------------------------------------------------------------------------

\* One row: description, [start col, end col], alignment, validator,
\* preprocessor.  The validator of a row is named by the row's description.
Column(key, interval, alignment, preprocessor) ==
    [key |-> key, interval |-> interval, alignment |-> alignment,
     validator |-> key, preprocessor |-> preprocessor]

ColumnTable == <<
    Column("Name/ASCII",      <<  1,  17>>, "left",  "dummy_preprocess"),
    Column("Name/Diacritics", << 19,  35>>, "left",  "dummy_preprocess"),
    Column("Designation",     << 37,  48>>, "left",  "dummy_preprocess"),
    Column("ID",              << 50,  54>>, "left",  "dummy_preprocess"),
    Column("ID/Diacritics",   << 56,  60>>, "left",  "lowercase_preprocess"),
    Column("Con",             << 62,  64>>, "left",  "dummy_preprocess"),
    Column("#",               << 66,  69>>, "left",  "empty_to_underscore_preprocess"),
    Column("WDS_J",           << 71,  80>>, "left",  "dummy_preprocess"),
    Column("mag",             << 82,  86>>, "right", "dummy_preprocess"),
    Column("bnd",             << 88,  89>>, "right", "dummy_preprocess"),
    Column("HIP",             << 91,  96>>, "right", "dummy_preprocess"),
    Column("HD",              << 98, 103>>, "right", "dummy_preprocess"),
    Column("RA(J2000)",       <<105, 114>>, "right", "dummy_preprocess"),
    Column("Dec(J2000)",      <<116, 125>>, "right", "dummy_preprocess"),
    Column("Date",            <<127, 136>>, "right", "dummy_preprocess"),
    Column("notes",           <<138, 138>>, "right", "dummy_preprocess")
>>

\* SchemaAsserts without its second loop.
SchemaAssertsNoGap(cols) ==
    \A j \in 1..Len(cols) :
        /\ cols[j].interval[2] >= cols[j].interval[1]
        /\ cols[j].alignment = "left" \/ cols[j].alignment = "right"

\* The assertions on the table, in the order the script makes them.
SchemaAsserts(cols) ==
    /\ \A j \in 1..Len(cols) :
          /\ cols[j].interval[2] >= cols[j].interval[1]
          /\ cols[j].alignment = "left" \/ cols[j].alignment = "right"
    /\ \A j \in 1..(Len(cols) - 1) :
          cols[j + 1].interval[1] - cols[j].interval[2] = 2

\* ------------------------------------------------------------------------
\* Catalog files
\* ------------------------------------------------------------------------

\* A str literal as its sequence of characters.
Chars(s) == [j \in 1..Len(s) |-> SubSeq(s, j, j)]

\* A well-formed Data line.
LineAcamar ==
    [Chars("Acamar            Acamar            HR 897       tet01 ?01   Eri A    02583-4018  2.88  V  13847  18622  44.565311 -40.304672 2016-07-20  \n")
        EXCEPT ![56] = "U+03B8"]

\* A well-formed line with the sentinel "_" as mag and bnd, and a note.
LineLich ==
    Chars("Lich              Lich              PSR B1257+12 _     _     Vir _    _              _  _      _      _ 195.014903  12.682417 2015-12-15 *\n")

\* A well-formed line with a two-word name, the capital Y as Bayer letter
\* and "_" as mag and bnd.
LineLaSuperba ==
    Chars("La Superba        La Superba        HR 4846      Y     Y     CVn _    12452+4528     _  _  62223 110914 191.282605  45.440257 2018-06-01 @\n")

\* ID/Diacritics is U+03D5 GREEK PHI SYMBOL, which the pattern rejects.
LinePhi ==
    [Chars("Nunki             Nunki             HR 897       phi   ?     Eri A    02583-4018  2.88  V  13847  18622  44.565311 -40.304672 2016-07-20  \n")
        EXCEPT ![56] = "U+03D5"]

\* The # column is blank.
LineNoComponent ==
    [Chars("Acamar            Acamar            HR 897       tet01 ?01   Eri      02583-4018  2.88  V  13847  18622  44.565311 -40.304672 2016-07-20  \n")
        EXCEPT ![56] = "U+03B8"]

\* ID/Diacritics starts with U+00DF LATIN SMALL LETTER SHARP S.
LineSharpS ==
    [Chars("Acamar            Acamar            HR 897       tet01 ?1234 Eri A    02583-4018  2.88  V  13847  18622  44.565311 -40.304672 2016-07-20  \n")
        EXCEPT ![56] = "U+00DF"]

\* ID/Diacritics that lower-casing changes and does not make valid.
LineBadBayer ==
    Chars("Acamar            Acamar            HR 897       tet01 AB1!  Eri A    02583-4018  2.88  V  13847  18622  44.565311 -40.304672 2016-07-20  \n")

\* mag is not a number.
LineMagText ==
    [Chars("Acamar            Acamar            HR 897       tet01 ?01   Eri A    02583-4018   abc  V  13847  18622  44.565311 -40.304672 2016-07-20  \n")
        EXCEPT ![56] = "U+03B8"]

\* mag is a number out of range.
LineMagHigh ==
    [Chars("Acamar            Acamar            HR 897       tet01 ?01   Eri A    02583-4018  13.5  V  13847  18622  44.565311 -40.304672 2016-07-20  \n")
        EXCEPT ![56] = "U+03B8"]

\* mag in exponent notation.
LineMagExp ==
    [Chars("Acamar            Acamar            HR 897       tet01 ?01   Eri A    02583-4018 1.2e1  V  13847  18622  44.565311 -40.304672 2016-07-20  \n")
        EXCEPT ![56] = "U+03B8"]

\* RA is nan and Dec is out of range.
LineRaNan ==
    [Chars("Acamar            Acamar            HR 897       tet01 ?01   Eri A    02583-4018  2.88  V  13847  18622        nan      -90.5 2016-07-20  \n")
        EXCEPT ![56] = "U+03B8"]

\* The Dec column is blank.
LineDecEmpty ==
    [Chars("Acamar            Acamar            HR 897       tet01 ?01   Eri A    02583-4018  2.88  V  13847  18622  44.565311            2016-07-20  \n")
        EXCEPT ![56] = "U+03B8"]

\* A tab inside the Name/Diacritics text.
LineTabInName ==
    [Chars("Acamar            Aca\tmar           HR 897       tet01 ?01   Eri A    02583-4018  2.88  V  13847  18622  44.565311 -40.304672 2016-07-20  \n")
        EXCEPT ![56] = "U+03B8"]

\* The name is not flush left in its column.
LineIndented ==
    [Chars(" Acamar           Acamar            HR 897       tet01 ?01   Eri A    02583-4018  2.88  V  13847  18622  44.565311 -40.304672 2016-07-20  \n")
        EXCEPT ![56] = "U+03B8"]

\* mag is not flush right in its column.
LineRightFlushed ==
    [Chars("Acamar            Acamar            HR 897       tet01 ?01   Eri A    02583-4018 2.88   V  13847  18622  44.565311 -40.304672 2016-07-20  \n")
        EXCEPT ![56] = "U+03B8"]

\* A separator column that does not hold a space.
LineBarSeparator ==
    [Chars("Acamar           |Acamar            HR 897       tet01 ?01   Eri A    02583-4018  2.88  V  13847  18622  44.565311 -40.304672 2016-07-20  \n")
        EXCEPT ![56] = "U+03B8"]

\* Text past column 138.
LineOverlong ==
    [Chars("Acamar            Acamar            HR 897       tet01 ?01   Eri A    02583-4018  2.88  V  13847  18622  44.565311 -40.304672 2016-07-20 *xyz\n")
        EXCEPT ![56] = "U+03B8"]

\* The line ends one character before the notes column.
LineShort137 ==
    [Chars("Acamar            Acamar            HR 897       tet01 ?01   Eri A    02583-4018  2.88  V  13847  18622  44.565311 -40.304672 2016-07-20 \n")
        EXCEPT ![56] = "U+03B8"]

\* The line ends inside the Date column.
LineShortDate ==
    [Chars("Acamar            Acamar            HR 897       tet01 ?01   Eri A    02583-4018  2.88  V  13847  18622  44.565311 -40.304672 2016\n")
        EXCEPT ![56] = "U+03B8"]

\* The line ends right before the mag column.
LineShortMag ==
    [Chars("Acamar            Acamar            HR 897       tet01 ?01   Eri A    02583-4018 \n")
        EXCEPT ![56] = "U+03B8"]

\* The line ends inside the first column.
LineShortName ==
    Chars("Acamar\n")

\* Blank lines.
LineBlank ==
    Chars("\n")

LineBlankTab ==
    Chars(" \t\n")

\* Comment lines.
LineComment ==
    Chars("# IAU Catalog of Star Names \n")

LineDollar ==
    Chars("$ typo\n")

\* A # that is not the first character of its line.
LineIndentedHash ==
    Chars(" # note\n")

\* A last line of a file that does not end with a newline.
LineNoNewline ==
    Chars("Lich              Lich              PSR B1257+12 _     _     Vir _    _              _  _      _      _ 195.014903  12.682417 2015-12-15 *")

AllLines == {LineAcamar, LineLich, LineLaSuperba, LinePhi,
             LineNoComponent, LineSharpS, LineBadBayer, LineMagText,
             LineMagHigh, LineMagExp, LineRaNan, LineDecEmpty,
             LineTabInName, LineIndented, LineRightFlushed, LineBarSeparator,
             LineOverlong, LineShort137, LineShortDate, LineShortMag,
             LineShortName, LineBlank, LineBlankTab, LineComment,
             LineDollar, LineIndentedHash, LineNoNewline}

CoreLines == {LineBlank, LineComment, LineDollar, LineAcamar, LinePhi}

\* The longest catalog of core lines.
MaxLines == 3

RECURSIVE SeqsUpTo(_, _)
SeqsUpTo(S, len) ==
    IF len = 0 THEN {<<>>}
    ELSE LET shorter == SeqsUpTo(S, len - 1)
         IN  shorter \cup {Append(q, x) : q \in {r \in shorter : Len(r) = len - 1}, x \in S}

\* What readlines() may return: every line holds no newline but as its
\* last character, and only the last line of the file may lack it.
Catalogs == {<<l>> : l \in AllLines} \cup SeqsUpTo(CoreLines, MaxLines)

\* The column table as written, and three tables an edit could leave behind:
\* a span that ends before it starts, a misspelt alignment, a gap of two.
SchemaVersions ==
    {ColumnTable,
     [ColumnTable EXCEPT ![16].interval = <<138, 137>>],
     [ColumnTable EXCEPT ![9].alignment = "rigth"],
     [ColumnTable EXCEPT ![16].interval = <<139, 139>>]}

\* ------------------------------------------------------------------------
\* State
\* ------------------------------------------------------------------------

VARIABLES
    columns,           \* the column table of this build of the script
    catalog,           \* catalog_data/IAU-CSN.txt, as readlines() returns it
    pc,                \* where the script is; or the exception that ended it
    raw_lines, json_data, normalized_lines, csv_lines,
    n,                 \* how many of raw_lines the for loop has taken
    a,                 \* the line of the current iteration
    k,                 \* the column of the current iteration, from 1
    entry, csv_line, normalized_line,
    stdout,            \* the notices printed while parsing, in order
    calls,             \* what the last field iteration called, in order
    kinds,             \* the branch of the loop body each line took
    written,           \* the documents recorded so far
    normalized_text, csv_text, json_text,
    no_diffs           \* "not diffs" of the comparison after the loop

vars == <<columns, catalog, pc, raw_lines, json_data, normalized_lines, csv_lines,
          n, a, k, entry, csv_line, normalized_line, stdout, calls, kinds,
          written, normalized_text, csv_text, json_text, no_diffs>>

\* ------------------------------------------------------------------------
\* The loop body
\* ------------------------------------------------------------------------

\* not a.strip("\r\n\t ")
IsBlank(line) == Strip(line, StripChars) = <<>>

\* IsComment that knows the "#" only.
IsCommentHashOnly(line) == line[1] = "#"

\* a[0] == "#" or a[0] == "$"
IsComment(line) == line[1] = "#" \/ line[1] = "$"

\* CommentText that keeps the first character of the line.
CommentTextAsIs(line) == Strip(line, StripChars)

\* a = "#" + a[1:]; a.strip("\r\n\t ")
CommentText(line) == Strip(<<"#">> \o Tail(line), StripChars)

\* a[interval[0] - 1 : interval[1]].strip("\r\n\t ")
FieldText(line, interval) == Strip(Slice(line, interval[1], interval[2]), StripChars)

\* ValidationFailed of a loop that preprocesses every value.
ValidationFailedOrNot(outcome) == outcome \in {"True", "False"}

\* "if not validator(value)": the preprocessor is tried.
ValidationFailed(outcome) == outcome = "False"

\* RepairAdopted of a loop that keeps the preprocessed value whatever the
\* second validation says.
RepairAdoptedAnyway(outcome) == outcome \in {"True", "False"}

\* The else of "if not validator(preprocessed_value)": value = preprocessed_value.
RepairAdopted(outcome) == outcome = "True"

\* Pad with the two alignments exchanged.
PadExchanged(value, alignment, width) ==
    IF alignment = "left" THEN RJust(value, width) ELSE LJust(value, width)

\* value.ljust(width, " ") if alignment == "left" else value.rjust(width, " ")
Pad(value, alignment, width) ==
    IF alignment = "left" THEN LJust(value, width) ELSE RJust(value, width)

Width(interval) == interval[2] - interval[1] + 1

\* entry[key] = value, on an OrderedDict held as its (key, value) items
DictSet(d, key, value) ==
    IF \E j \in 1..Len(d) : d[j][1] = key
    THEN [j \in 1..Len(d) |-> IF d[j][1] = key THEN <<key, value>> ELSE d[j]]
    ELSE Append(d, <<key, value>>)

Notice(kind, row, col, c, value, preprocessed, line) ==
    [kind |-> kind, row |-> row, column |-> col, key |-> c.key, value |-> value,
     preprocessed |-> preprocessed, text |-> RStrip(line, StripChars)]

\* What the preprocessor itself prints: print(value, value.lower().strip(" ")).
PreprocessorPrints(c, row, col, value, line) ==
    IF c.preprocessor = "lowercase_preprocess"
    THEN <<Notice("echo", row, col, c, value, Strip(StrLower(value), {" "}), line)>>
    ELSE <<>>

\* One iteration of "for k, c in enumerate(columns)", up to the value that
\* is stored: raised is the ValueError of a range lambda, which nothing
\* catches.
ParseField(c, row, col, line) ==
    LET value  == FieldText(line, c.interval)
        first  == Validate(c.validator, value)
        pre    == Preprocess(c.preprocessor, value)
        second == Validate(c.validator, pre)
        echo   == PreprocessorPrints(c, row, col, value, line)
        warn   == IF pre # value
                  THEN <<Notice("Warning", row, col, c, value, pre, line)>>
                  ELSE <<>>
        fail   == <<Notice("Failed", row, col, c, value, pre, line)>>
    IN  IF first = "ValueError"
          THEN [raised |-> TRUE, value |-> value, calls |-> <<"validator">>,
                notices |-> <<>>]
        ELSE IF ~ValidationFailed(first)
          THEN [raised |-> FALSE, value |-> value, calls |-> <<"validator">>,
                notices |-> <<>>]
        ELSE IF second = "ValueError"
          THEN [raised |-> TRUE, value |-> value,
                calls |-> <<"validator", "preprocessor", "validator">>,
                notices |-> echo \o warn]
        ELSE IF RepairAdopted(second)
          THEN [raised |-> FALSE, value |-> pre,
                calls |-> <<"validator", "preprocessor", "validator">>,
                notices |-> echo \o warn]
        ELSE [raised |-> FALSE, value |-> value,
              calls |-> <<"validator", "preprocessor", "validator">>,
              notices |-> echo \o warn \o fail]

\* ------------------------------------------------------------------------
\* The script
\* ------------------------------------------------------------------------

Init ==
    /\ columns \in SchemaVersions
    /\ catalog \in Catalogs
    /\ pc = "assert"
    /\ raw_lines = <<>> /\ json_data = <<>> /\ normalized_lines = <<>>
    /\ csv_lines = <<>>
    /\ n = 0 /\ a = <<>> /\ k = 0
    /\ entry = <<>> /\ csv_line = <<>> /\ normalized_line = <<>>
    /\ stdout = <<>> /\ calls = <<>> /\ kinds = <<>>
    /\ written = {}
    /\ normalized_text = <<>> /\ csv_text = <<>> /\ json_text = <<>>
    /\ no_diffs = FALSE

\* The assertions on the column table: a failed assert ends the script.
CheckSchema ==
    /\ pc = "assert"
    /\ pc' = IF SchemaAsserts(columns) THEN "readlines" ELSE "AssertionError"
    /\ UNCHANGED <<columns, catalog, raw_lines, json_data, normalized_lines,
                   csv_lines, n, a, k, entry, csv_line, normalized_line, stdout,
                   calls, kinds, written, normalized_text, csv_text, json_text,
                   no_diffs>>

\* raw_lines = open(...).readlines(), the empty accumulators, the csv header.
ReadLines ==
    /\ pc = "readlines"
    /\ raw_lines' = catalog
    /\ json_data' = <<>>
    /\ normalized_lines' = <<>>
    /\ csv_lines' = <<JoinStr(<<"\t">>, [j \in 1..Len(columns) |-> Chars(columns[j].key)])>>
    /\ pc' = "for"
    /\ UNCHANGED <<columns, catalog, n, a, k, entry, csv_line, normalized_line,
                   stdout, calls, kinds, written, normalized_text, csv_text,
                   json_text, no_diffs>>

\* An empty line: append an empty line.
BlankLine ==
    /\ pc = "for" /\ n < Len(raw_lines)
    /\ IsBlank(raw_lines[n + 1])
    /\ a' = raw_lines[n + 1]
    /\ normalized_lines' = Append(normalized_lines, <<>>)
    /\ kinds' = Append(kinds, "Blank")
    /\ n' = n + 1
    /\ UNCHANGED <<columns, catalog, pc, raw_lines, json_data, csv_lines, k, entry,
                   csv_line, normalized_line, stdout, calls, written,
                   normalized_text, csv_text, json_text, no_diffs>>

\* A comment: keep the line but for its first character and its end.
CommentLine ==
    /\ pc = "for" /\ n < Len(raw_lines)
    /\ ~IsBlank(raw_lines[n + 1])
    /\ IsComment(raw_lines[n + 1])
    /\ a' = <<"#">> \o Tail(raw_lines[n + 1])
    /\ normalized_lines' = Append(normalized_lines, CommentText(raw_lines[n + 1]))
    /\ kinds' = Append(kinds, "Comment")
    /\ n' = n + 1
    /\ UNCHANGED <<columns, catalog, pc, raw_lines, json_data, csv_lines, k, entry,
                   csv_line, normalized_line, stdout, calls, written,
                   normalized_text, csv_text, json_text, no_diffs>>

\* Any other line: a new entry, and the loop over the columns starts.
DataLine ==
    /\ pc = "for" /\ n < Len(raw_lines)
    /\ ~IsBlank(raw_lines[n + 1])
    /\ ~IsComment(raw_lines[n + 1])
    /\ a' = raw_lines[n + 1]
    /\ entry' = <<>> /\ csv_line' = <<>> /\ normalized_line' = <<>>
    /\ k' = 1
    /\ calls' = <<>>
    /\ kinds' = Append(kinds, "Data")
    /\ n' = n + 1
    /\ pc' = "field"
    /\ UNCHANGED <<columns, catalog, raw_lines, json_data, normalized_lines,
                   csv_lines, stdout, written, normalized_text, csv_text, json_text,
                   no_diffs>>

\* One column of the line: slice, validate, preprocess, store, pad.
Field ==
    /\ pc = "field" /\ k <= Len(columns)
    /\ LET c == columns[k]
           r == ParseField(c, n, k, a)
       IN  /\ stdout' = stdout \o r.notices
           /\ calls' = r.calls
           /\ IF r.raised
              THEN /\ pc' = "ValueError"
                   /\ UNCHANGED <<k, entry, csv_line, normalized_line>>
              ELSE /\ entry' = DictSet(entry, c.key, r.value)
                   /\ csv_line' = Append(csv_line, r.value)
                   /\ normalized_line' =
                         Append(normalized_line, Pad(r.value, c.alignment, Width(c.interval)))
                   /\ k' = k + 1
                   /\ pc' = "field"
    /\ UNCHANGED <<columns, catalog, raw_lines, json_data, normalized_lines,
                   csv_lines, n, a, kinds, written, normalized_text, csv_text,
                   json_text, no_diffs>>

\* After the last column: the entry, the csv line and the normalized line
\* are appended, and "del a, entry, csv_line, normalized_line".
EndOfLine ==
    /\ pc = "field" /\ k > Len(columns)
    /\ json_data' = Append(json_data, entry)
    /\ csv_lines' = Append(csv_lines, JoinStr(<<"\t">>, csv_line))
    /\ normalized_lines' = Append(normalized_lines, JoinStr(<<" ">>, normalized_line))
    /\ a' = <<>> /\ entry' = <<>> /\ csv_line' = <<>> /\ normalized_line' = <<>>
    /\ pc' = "for"
    /\ UNCHANGED <<columns, catalog, raw_lines, n, k, stdout, calls, kinds, written,
                   normalized_text, csv_text, json_text, no_diffs>>

\* The lines compared by difflib.context_diff: i.rstrip("\r\n\t ") + "\n".
DiffLines(lines) == [j \in 1..Len(lines) |-> RStrip(lines[j], StripChars) \o <<"\n">>]

\* After the loop: the three documents are recorded and the raw lines are
\* compared with the normalized ones.  json_text is the array json.dumps
\* writes, held as the list of its objects.
Record ==
    /\ pc = "for" /\ n = Len(raw_lines)
    /\ normalized_text' = JoinStr(<<"\n">>, normalized_lines) \o <<"\n">>
    /\ csv_text' = JoinStr(<<"\n">>, csv_lines) \o <<"\n">>
    /\ json_text' = json_data
    /\ no_diffs' = (DiffLines(raw_lines) = DiffLines(normalized_lines))
    /\ written' = {"IAU-CSN_normalized.txt", "IAU-CSN.tsv", "IAU-CSN.json"}
    /\ pc' = "done"
    /\ UNCHANGED <<columns, catalog, raw_lines, json_data, normalized_lines,
                   csv_lines, n, a, k, entry, csv_line, normalized_line, stdout,
                   calls, kinds>>

Next ==
    \/ CheckSchema
    \/ ReadLines
    \/ BlankLine
    \/ CommentLine
    \/ DataLine
    \/ Field
    \/ EndOfLine
    \/ Record

Spec == Init /\ [][Next]_vars

\* ------------------------------------------------------------------------
\* Vocabulary of the properties
\* ------------------------------------------------------------------------

\* The three kinds of line: Blank is empty once its whitespace is trimmed,
\* Comment starts with "#" or "$", Data is every other line.
LineIsBlank(line) == \A j \in 1..Len(line) : line[j] \in StripChars

LineIsComment(line) == Len(line) >= 1 /\ line[1] \in {"#", "$"}

KindOf(line) ==
    IF LineIsBlank(line) THEN "Blank"
    ELSE IF LineIsComment(line) THEN "Comment"
    ELSE "Data"

\* The lines whose iteration of the for loop is over.
Finished == 1..Len(normalized_lines)

FinishedData == {i \in Finished : KindOf(raw_lines[i]) = "Data"}

\* The place of line i among the Data lines up to it.
DataIndex(i) == Cardinality({m \in 1..i : KindOf(raw_lines[m]) = "Data"})

\* The values of an entry, in the order of its keys.
ValuesOf(rec) == [j \in 1..Len(rec) |-> rec[j][2]]

KeysOf(rec) == [j \in 1..Len(rec) |-> rec[j][1]]

\* The trimmed slice of each column of a line.
TrimmedSlices(line) ==
    [j \in 1..Len(columns) |-> FieldText(line, columns[j].interval)]

\* What the parser yields for a column: the preprocessed text when the
\* trimmed slice fails validation and the preprocessed text passes it, and
\* the trimmed slice otherwise.
ParsedValue(c, text) ==
    IF /\ Validate(c.validator, text) = "False"
       /\ Validate(c.validator, Preprocess(c.preprocessor, text)) = "True"
    THEN Preprocess(c.preprocessor, text)
    ELSE text

ParsedValues(line) ==
    [j \in 1..Len(columns) |-> ParsedValue(columns[j], TrimmedSlices(line)[j])]

\* The fixed-width rendering of a sequence of values.
Rendering(values) ==
    JoinStr(<<" ">>, [j \in 1..Len(values) |->
                        Pad(values[j], columns[j].alignment, Width(columns[j].interval))])

\* row.split(sep) for a one-character sep
RECURSIVE SplitOn(_, _)
SplitOn(row, sep) ==
    IF FirstIndex(row, {sep}) = 0 THEN <<row>>
    ELSE <<SubSeq(row, 1, FirstIndex(row, {sep}) - 1)>>
         \o SplitOn(SubSeq(row, FirstIndex(row, {sep}) + 1, Len(row)), sep)

\* The notices of one kind printed for column col of line row.
NoticesOf(kind, row, col) ==
    {i \in 1..Len(stdout) : /\ stdout[i].kind = kind
                            /\ stdout[i].row = row
                            /\ stdout[i].column = col}

\* The columns of the current Data line that have been stored.
Stored == IF pc \in {"field", "ValueError"} THEN 1..Len(csv_line) ELSE {}

\* The three checks of the column table.
SpansMakeSense(cols) ==
    \A j \in 1..Len(cols) : cols[j].interval[2] >= cols[j].interval[1]

AlignmentsKnown(cols) ==
    \A j \in 1..Len(cols) : cols[j].alignment \in {"left", "right"}

GapsOfOne(cols) ==
    \A j \in 1..(Len(cols) - 1) : cols[j + 1].interval[1] - cols[j].interval[2] = 2

\* A line that has been read, classified, or written out.
Running ==
    \/ pc \in {"for", "field", "ValueError", "done"}
    \/ raw_lines # <<>> \/ kinds # <<>> \/ normalized_lines # <<>>
    \/ csv_lines # <<>> \/ json_data # <<>> \/ written # {}

\* ------------------------------------------------------------------------
\* Properties
\* ------------------------------------------------------------------------

\* C1: parsing a Data line never raises: whatever the mag, RA(J2000) and
\* Dec(J2000) columns hold, the loop over the columns ends with a Record and
\* the script goes on to record its documents.
C1_ParsingNeverRaises == pc # "ValueError"

\* C2: for every stored field whose trimmed slice fails validation, the
\* stored value is the preprocessed one if that validates and the trimmed
\* slice otherwise; a Warning is printed exactly when preprocessing changed
\* the value, and a Failed notice exactly when the preprocessed value fails
\* validation too.
C2_RepairRule ==
    \A j \in Stored :
        LET c     == columns[j]
            value == FieldText(a, c.interval)
            pre   == Preprocess(c.preprocessor, value)
        IN  Validate(c.validator, value) = "False" =>
              /\ csv_line[j] = IF Validate(c.validator, pre) = "True" THEN pre ELSE value
              /\ entry[j] = <<c.key, csv_line[j]>>
              /\ Cardinality(NoticesOf("Warning", n, j)) = IF pre # value THEN 1 ELSE 0
              /\ Cardinality(NoticesOf("Failed", n, j))
                    = IF Validate(c.validator, pre) = "False" THEN 1 ELSE 0

\* A field that preprocessing changes without making it valid: the trimmed
\* slice is stored, and both notices are printed.
C2_Witness ==
    \E j \in Stored :
        /\ Validate(columns[j].validator, FieldText(a, columns[j].interval)) = "False"
        /\ Preprocess(columns[j].preprocessor, FieldText(a, columns[j].interval))
              # FieldText(a, columns[j].interval)
        /\ csv_line[j] = FieldText(a, columns[j].interval)
        /\ NoticesOf("Warning", n, j) # {}
        /\ NoticesOf("Failed", n, j) # {}

\* C3, as claimed: for every Data line none of whose fields was replaced by
\* its preprocessed value, the fixed-width rendering equals the line, both
\* without their trailing whitespace.
C3_RoundTripOfAnyLine ==
    \A i \in FinishedData :
        ValuesOf(json_data[DataIndex(i)]) = TrimmedSlices(raw_lines[i])
          => RStrip(normalized_lines[i], StripChars) = RStrip(raw_lines[i], StripChars)

\* The text of column j of a line, the line taken as ending in spaces.
ColumnText(line, c) ==
    LJust(Slice(RStrip(line, StripChars), c.interval[1], c.interval[2]), Width(c.interval))

\* Text flush with its side of the column, the rest of the column spaces.
Flush(s, alignment) ==
    \/ \A j \in 1..Len(s) : s[j] = " "
    \/ /\ alignment = "left"
       /\ s[1] \notin StripChars
       /\ \A j \in 1..Len(s) : s[j] \in StripChars =>
             (s[j] = " " \/ \E m \in (j + 1)..Len(s) : s[m] \notin StripChars)
    \/ /\ alignment # "left"
       /\ s[Len(s)] \notin StripChars
       /\ \A j \in 1..Len(s) : s[j] \in StripChars =>
             (s[j] = " " \/ \E m \in 1..(j - 1) : s[m] \notin StripChars)

\* A line laid out as the column table says: nothing but whitespace past the
\* last column, a space in each separator column, each field flush.
LaidOut(line) ==
    /\ Len(RStrip(line, StripChars)) <= columns[Len(columns)].interval[2]
    /\ \A j \in 1..(Len(columns) - 1) :
          columns[j].interval[2] + 1 <= Len(RStrip(line, StripChars))
            => line[columns[j].interval[2] + 1] = " "
    /\ \A j \in 1..Len(columns) : Flush(ColumnText(line, columns[j]), columns[j].alignment)

\* C3, amended: the round trip holds for the Data lines that are laid out
\* as the column table says.
C3_RoundTripOfLaidOutLine ==
    \A i \in FinishedData :
        /\ ValuesOf(json_data[DataIndex(i)]) = TrimmedSlices(raw_lines[i])
        /\ LaidOut(raw_lines[i])
        => RStrip(normalized_lines[i], StripChars) = RStrip(raw_lines[i], StripChars)

\* A laid-out Data line shorter than the table, parsed without a repair.
C3_Witness ==
    \E i \in FinishedData :
        /\ ValuesOf(json_data[DataIndex(i)]) = TrimmedSlices(raw_lines[i])
        /\ LaidOut(raw_lines[i])
        /\ Len(RStrip(raw_lines[i], StripChars)) < columns[Len(columns)].interval[2]
        /\ RStrip(normalized_lines[i], StripChars) = RStrip(raw_lines[i], StripChars)

\* C4: for every Data line the values of its JSON object, the fields of its
\* TSV row split on the tab, and the values the parser produced are the
\* same sequence, one per column and in the order of the column table.
C4_TsvJsonParity ==
    \A i \in FinishedData :
        /\ KeysOf(json_data[DataIndex(i)]) = [j \in 1..Len(columns) |-> columns[j].key]
        /\ ValuesOf(json_data[DataIndex(i)]) = ParsedValues(raw_lines[i])
        /\ SplitOn(csv_lines[DataIndex(i) + 1], "\t") = ParsedValues(raw_lines[i])

\* C5: the normalized lines are as many as the lines taken from the input,
\* line by line: nothing for a blank line, the trimmed line with "#" as
\* its first character for a comment, the rendering of its Record for a
\* Data line; once the loop is over there is one per input line.
C5_NormalizedLines ==
    /\ pc \in {"for", "done"} => Len(normalized_lines) = n
    /\ pc = "done" => Len(normalized_lines) = Len(catalog)
    /\ \A i \in Finished :
          normalized_lines[i] =
            CASE KindOf(catalog[i]) = "Blank"   -> <<>>
              [] KindOf(catalog[i]) = "Comment" ->
                    Strip([catalog[i] EXCEPT ![1] = "#"], StripChars)
              [] KindOf(catalog[i]) = "Data"    ->
                    Rendering(ValuesOf(json_data[DataIndex(i)]))

\* A catalog of a "$" comment, a blank line and a Data line, processed.
C5_Witness ==
    /\ pc = "done"
    /\ [i \in 1..Len(catalog) |-> KindOf(catalog[i])] = <<"Comment", "Blank", "Data">>
    /\ catalog[1][1] = "$"
    /\ Len(normalized_lines) = Len(catalog)

\* C6: every line takes the one branch of its kind; the JSON array holds
\* one object per Data line and the TSV document the header and one row per
\* Data line, in the order of the input; blank and comment lines add
\* nothing to either.
C6_OnePerDataLine ==
    /\ \A i \in 1..Len(kinds) :
          /\ kinds[i] = KindOf(raw_lines[i])
          /\ ~(LineIsBlank(raw_lines[i]) /\ LineIsComment(raw_lines[i]))
    /\ Len(json_data) = Cardinality(FinishedData)
    /\ Len(csv_lines) = IF pc \in {"assert", "AssertionError", "readlines"} THEN 0
                        ELSE 1 + Cardinality(FinishedData)
    /\ \A i \in FinishedData :
          /\ ValuesOf(json_data[DataIndex(i)])[1] = TrimmedSlices(raw_lines[i])[1]
          /\ csv_lines[DataIndex(i) + 1]
                = JoinStr(<<"\t">>, ValuesOf(json_data[DataIndex(i)]))
    /\ pc = "done" =>
          /\ Len(json_text) = Cardinality({i \in 1..Len(catalog) : KindOf(catalog[i]) = "Data"})
          /\ json_text = json_data
          /\ csv_lines[1] = JoinStr(<<"\t">>, [j \in 1..Len(columns) |-> Chars(columns[j].key)])
          /\ csv_text = JoinStr(<<"\n">>, csv_lines) \o <<"\n">>

\* Two different Data lines around a comment, processed.
C6_Witness ==
    /\ pc = "done"
    /\ kinds = <<"Data", "Comment", "Data">>
    /\ Len(json_text) = 2
    /\ json_text[1] # json_text[2]

\* C7: whenever a line has been read or classified or a document written,
\* the column table passes the three checks; with a table that fails one,
\* the script is at its assertions or has ended on them, and nothing has
\* been read or written.
C7_SchemaChecked ==
    /\ Running => /\ SpansMakeSense(columns)
                  /\ AlignmentsKnown(columns)
                  /\ GapsOfOne(columns)
    /\ ~(SpansMakeSense(columns) /\ AlignmentsKnown(columns) /\ GapsOfOne(columns))
          => /\ pc \in {"assert", "AssertionError"}
             /\ n = 0 /\ stdout = <<>>

\* The documents of a catalog with a Data line, recorded.
C7_Witness ==
    /\ written # {}
    /\ json_text # <<>>
    /\ GapsOfOne(columns)

\* C8: a Data line that ends before the end of a column's span does not
\* crash the script, and yields a Record that holds the empty or truncated
\* slice of each column beyond the end of the line, with a notice printed
\* for each such column.
C8_ShortLines ==
    /\ pc = "ValueError" => Len(RStrip(a, StripChars)) >= columns[Len(columns)].interval[2]
    /\ \A i \in FinishedData : \A j \in 1..Len(columns) :
          Len(RStrip(raw_lines[i], StripChars)) < columns[j].interval[1] =>
            /\ ValuesOf(json_data[DataIndex(i)])[j] = TrimmedSlices(raw_lines[i])[j]
            /\ NoticesOf("Warning", i, j) \cup NoticesOf("Failed", i, j) # {}

\* C9: in the rendering of every Data line each field is as wide as its
\* column, so the line is as long as the table and holds a space in each
\* separator column, repaired values included.
C9_FixedWidth ==
    /\ \A j \in 1..Len(normalized_line) :
          Len(normalized_line[j]) = Width(columns[j].interval)
    /\ \A i \in FinishedData :
          /\ Len(normalized_lines[i]) = columns[Len(columns)].interval[2]
          /\ \A j \in 1..(Len(columns) - 1) :
                normalized_lines[i][columns[j].interval[2] + 1] = " "

\* C10: a field whose trimmed slice passes validation is stored as it is,
\* the preprocessor is not called and nothing is printed for it; "_" as
\* mag is such a field, float() not being asked about it.
C10_ValidFieldUntouched ==
    /\ \A j \in Stored :
          Validate(columns[j].validator, FieldText(a, columns[j].interval)) = "True" =>
            /\ csv_line[j] = FieldText(a, columns[j].interval)
            /\ entry[j] = <<columns[j].key, FieldText(a, columns[j].interval)>>
            /\ \A i \in 1..Len(stdout) : ~(stdout[i].row = n /\ stdout[i].column = j)
            /\ (pc = "field" /\ j = k - 1) => calls = <<"validator">>
    /\ \A j \in Stored :
          (columns[j].key = "mag" /\ FieldText(a, columns[j].interval) = <<"_">>) =>
            /\ ~Float(<<"_">>).ok
            /\ csv_line[j] = <<"_">>

\* A Bayer letter in upper case stored as it is, and "_" stored as mag.
C10_Witness ==
    /\ pc = "field" /\ k = 10
    /\ columns[5].key = "ID/Diacritics" /\ csv_line[5] = <<"Y">>
    /\ columns[9].key = "mag" /\ csv_line[9] = <<"_">>
    /\ calls = <<"validator">>
    /\ stdout = <<>>

====
